---------------------------- MODULE Spec2Model ----------------------------
(***************************************************************************)
(* The htclow channel multiplexer (ams::htclow::mux::Mux) as a state       *)
(* machine.  Every member function of htclow_mux.cpp is one action, or a   *)
(* short chain of actions where other threads can interleave with it:      *)
(* the functions that take m_mutex run their body while they own it, the   *)
(* functions that do not take it (SetVersion, CheckReceivedHeader,         *)
(* CheckChannelExist, SendErrorPacket) run at the granularity of their     *)
(* accesses to the shared members.                                         *)
(*                                                                         *)
(* The collaborators whose code is in other files (the channel             *)
(* implementation, the global send buffer, the packet factory, the sleep   *)
(* detector, the event) are modelled from their described contracts.       *)
(***************************************************************************)
EXTENDS Integers, Sequences, FiniteSets, TLC

(***************************************************************************)
(* Bounds of the model.                                                    *)
(***************************************************************************)
NumThreads == 2        \* threads calling into the multiplexer
MaxChannel == 2        \* channel ids are 1..MaxChannel
MaxVersion == 2        \* protocol versions are 1..MaxVersion
MaxPkt     == 2        \* packets the packet factory can hand out
MaxBody    == 1        \* sizeof(PacketBody), scaled down

Threads  == 1..NumThreads
Channels == 1..MaxChannel
Versions == 1..MaxVersion
PktIds   == 1..MaxPkt
BodySizes == 0..(MaxBody + 1)

NoThread == 0
ProtocolVersion == 1   \* the version a multiplexer and a channel start with

PacketTypes == {"Data", "MaxData", "Error"}
DataTypes   == {"Data", "MaxData"}

NoHeader == [packet_type |-> "None", channel |-> 0, id |-> 0]

VARIABLES
    m_state,               \* MuxState: "Normal" or "Sleep"
    m_version,             \* the negotiated protocol version
    m_event,               \* the manual-clear event: TRUE when signalled
    m_global_send_buffer,  \* the control queue: a sequence of error packets
    m_channel_impl_map,    \* channel id -> [version, send], the open channels
    m_mutex,               \* the thread that owns m_mutex, or NoThread
    next_id,               \* the packet factory: the next packet it hands out
    pc,                    \* per thread: the call it is inside, and where
    last,                  \* the call that returned last, with what it returned
    peer,                  \* the multiplexer of the other side (its queue)
    wire                   \* the packets in flight between the two sides

vars == <<m_state, m_version, m_event, m_global_send_buffer,
          m_channel_impl_map, m_mutex, next_id, pc, last, peer, wire>>

shared == <<m_state, m_version, m_event, m_global_send_buffer,
            m_channel_impl_map>>

(***************************************************************************)
(* A thread's position.  "idle": in no call.  channel and version hold the *)
(* call's locals (Open's channel and the version it read, the position of  *)
(* SetVersion's iterator); keep and header are those of the transmit pump, *)
(* which goes on with the header QuerySendPacket copied out.               *)
(***************************************************************************)
Idle ==
    [op |-> "None", stage |-> "idle", channel |-> 0, version |-> 0,
     keep |-> FALSE, header |-> NoHeader]

At(op, stage, channel, version) ==
    [Idle EXCEPT !.op = op, !.stage = stage, !.channel = channel,
                 !.version = version]

(***************************************************************************)
(* The record of a returned call: its arguments and its results.           *)
(***************************************************************************)
NoCall ==
    [op |-> "None", packet_type |-> "None", channel |-> 0,
     version |-> 0, body_size |-> 0, result |-> "None", found |-> FALSE,
     header |-> NoHeader, notified |-> 0, sleeping |-> FALSE]

Exists(channel) == channel \in DOMAIN m_channel_impl_map

Range(s) == {s[i] : i \in 1..Len(s)}

\* The ids of the packets currently held by the control queue or a channel.
HeldIds ==
    {p.id : p \in Range(m_global_send_buffer)}
        \cup UNION {{p.id : p \in Range(m_channel_impl_map[c].send)} :
                        c \in DOMAIN m_channel_impl_map}

MinOf(S) == CHOOSE x \in S : \A y \in S : x <= y

TypeOK ==
    /\ m_state \in {"Normal", "Sleep"}
    /\ m_version \in Versions
    /\ m_event \in BOOLEAN
    /\ m_mutex \in Threads \cup {NoThread}
    /\ next_id \in 1..(MaxPkt + 1)
    /\ DOMAIN m_channel_impl_map \subseteq Channels
    /\ \A c \in DOMAIN m_channel_impl_map :
          /\ m_channel_impl_map[c].version \in Versions
          /\ \A p \in Range(m_channel_impl_map[c].send) :
                p.packet_type \in DataTypes /\ p.channel = c
    /\ \A p \in Range(m_global_send_buffer) : p.packet_type = "Error"
    /\ \A p \in Range(peer.m_global_send_buffer) : p.packet_type = "Error"
    /\ peer.made \in 0..MaxPkt /\ peer.received \in 0..(MaxPkt + 1)
    /\ wire.received \in 0..(MaxPkt + 1)
    /\ \A p \in Range(wire.to_peer) \cup Range(wire.from_peer) :
          p.packet_type = "Error"

Init ==
    /\ m_state = "Normal"
    /\ m_version = ProtocolVersion
    /\ m_event = FALSE
    /\ m_global_send_buffer = <<>>
    /\ m_channel_impl_map = [c \in {} |-> 0]
    /\ m_mutex = NoThread
    /\ next_id = 1
    /\ pc = [t \in Threads |-> Idle]
    /\ last = NoCall
    /\ peer = [m_global_send_buffer |-> <<>>, made |-> 0, received |-> 0]
    /\ wire = [to_peer |-> <<>>, from_peer |-> <<>>, received |-> 0]

(***************************************************************************)
(* Collaborators (other files of the library).                             *)
(***************************************************************************)

\* PacketFactory::MakeErrorPacket: an Error packet addressed to the channel.
MakeErrorPacket(channel) ==
    [packet_type |-> "Error", channel |-> channel, id |-> next_id]

\* PacketFactory: a packet can be made while the factory has one left.
CanAllocate == next_id <= MaxPkt

\* GlobalSendBuffer::AddPacket / GetNextPacket / RemovePacket: a FIFO.
AddPacket(buffer, packet) == Append(buffer, packet)
GetNextPacket(buffer) == IF buffer = <<>> THEN NoHeader ELSE Head(buffer)
PopPacket(buffer) == Tail(buffer)

\* ChannelImplMap::AddChannel: a new channel at the initial version, with
\* nothing to send and no buffers.
AddChannel(map, channel) ==
    [c \in DOMAIN map \cup {channel} |->
        IF c = channel
        THEN [version |-> ProtocolVersion, send |-> <<>>,
              send_buffer |-> "None", receive_buffer |-> "None"]
        ELSE map[c]]

\* ChannelImpl::SetSendBuffer / SetSendBufferWithData / SetReceiveBuffer:
\* the buffer is installed on the channel (kind tells which call did it).
ChannelSetSendBuffer(map, channel, kind) ==
    [map EXCEPT ![channel].send_buffer = kind]

ChannelSetReceiveBuffer(map, channel) ==
    [map EXCEPT ![channel].receive_buffer = "Buffer"]

\* ChannelImpl::SetVersion on one channel of the map.
ChannelSetVersion(map, channel, version) ==
    [map EXCEPT ![channel].version = version]

\* ChannelImpl::QuerySendPacket: whether the channel has a packet ready.
ChannelQuerySendPacket(channel) == m_channel_impl_map[channel].send # <<>>

\* ChannelImpl::RemovePacket: the transmitted packet leaves the send buffer.
ChannelRemovePacket(map, channel) ==
    IF map[channel].send = <<>> THEN map
    ELSE [map EXCEPT ![channel].send = Tail(@)]

\* What ChannelImpl::ProcessReceivePacket may return.
ChannelResults == {"Success", "ChannelStateError"}

(***************************************************************************)
(* Helpers of the multiplexer.                                             *)
(***************************************************************************)

\* IsSendable without the sleep state: everything is sendable.
IsSendable_IgnoresSleep(packet_type) == TRUE

\* Mux::IsSendable.
IsSendable(packet_type) ==
    CASE m_state = "Normal" -> TRUE
      [] m_state = "Sleep"  -> FALSE

\* CheckReceivedHeader with the version checked for every packet type.
CheckReceivedHeaderResult_VersionForAll(packet_type, version, body_size) ==
    IF version # m_version THEN "ProtocolError"
    ELSE IF packet_type = "Data" /\ ~(body_size <= MaxBody) THEN "ProtocolError"
    ELSE IF packet_type # "Data" /\ body_size # 0 THEN "ProtocolError"
    ELSE "Success"

\* Mux::CheckReceivedHeader, for a header with the right signature.
CheckReceivedHeaderResult(packet_type, version, body_size) ==
    CASE packet_type = "Data" ->
            IF version # m_version THEN "ProtocolError"
            ELSE IF ~(body_size <= MaxBody) THEN "ProtocolError"
            ELSE "Success"
      [] packet_type = "MaxData" ->
            IF version # m_version THEN "ProtocolError"
            ELSE IF body_size # 0 THEN "ProtocolError"
            ELSE "Success"
      [] packet_type = "Error" ->
            IF body_size # 0 THEN "ProtocolError"
            ELSE "Success"

\* SendErrorPacket queueing the packet without signalling the event.
SendErrorPacketBody_NoSignal(channel, ok) ==
    IF ok
    THEN /\ m_global_send_buffer' =
                AddPacket(m_global_send_buffer, MakeErrorPacket(channel))
         /\ next_id' = next_id + 1
         /\ UNCHANGED m_event
    ELSE UNCHANGED <<m_global_send_buffer, next_id, m_event>>

\* ProcessReceivePacket answering every packet of an unknown channel.
RepliesWithError_Always(packet_type) == TRUE

\* Mux::ProcessReceivePacket: the packets of an unknown channel that are
\* answered with an error packet.
RepliesWithError(packet_type) ==
    packet_type = "Data" \/ packet_type = "MaxData"

\* Mux::SendErrorPacket: the packet is queued and the event signalled, or
\* the failure of AddPacket is returned and nothing else happens.
SendErrorPacketResult(ok) == IF ok THEN "Success" ELSE "OutOfMemory"

SendErrorPacketBody(channel, ok) ==
    IF ok
    THEN /\ m_global_send_buffer' =
                AddPacket(m_global_send_buffer, MakeErrorPacket(channel))
         /\ next_id' = next_id + 1
         /\ m_event' = TRUE
    ELSE UNCHANGED <<m_global_send_buffer, next_id, m_event>>

\* The channels of the map after `channel`, in the map's (key) order.
After(channel) == {c \in DOMAIN m_channel_impl_map : c > channel}

\* The loop of Mux::QuerySendPacket: the first channel, in the map's order,
\* that has a packet ready; 0 when there is none.
FirstReadyChannel ==
    LET ready == {c \in DOMAIN m_channel_impl_map : ChannelQuerySendPacket(c)}
    IN  IF ready = {} THEN 0 ELSE MinOf(ready)

Returned(op) == [NoCall EXCEPT !.op = op]

CanCall(t) == pc[t].stage = "idle"

\* A call that is one step is made by any thread that is in no call.
SomeIdle == \E t \in Threads : CanCall(t)

(***************************************************************************)
(* Mux::SetVersion.  It takes no lock: the member is written, then every   *)
(* entry of the map is visited, one entry a step.                          *)
(***************************************************************************)
SetVersion(t, version) ==
    /\ CanCall(t)
    /\ m_version' = version
    /\ pc' = [pc EXCEPT ![t] = At("SetVersion", "loop", 0, 0)]
    /\ last' = NoCall
    /\ UNCHANGED <<m_state, m_event, m_global_send_buffer,
                   m_channel_impl_map, m_mutex, next_id>>

SetVersionLoop(t) ==
    /\ pc[t].op = "SetVersion" /\ pc[t].stage = "loop"
    /\ IF After(pc[t].channel) # {}
       THEN LET c == MinOf(After(pc[t].channel))
            IN  /\ m_channel_impl_map' =
                       ChannelSetVersion(m_channel_impl_map, c, m_version)
                /\ pc' = [pc EXCEPT ![t].channel = c]
                /\ last' = NoCall
       ELSE /\ pc' = [pc EXCEPT ![t] = Idle]
            /\ last' = Returned("SetVersion")
            /\ UNCHANGED m_channel_impl_map
    /\ UNCHANGED <<m_state, m_version, m_event, m_global_send_buffer,
                   m_mutex, next_id>>

(***************************************************************************)
(* Mux::CheckReceivedHeader (no lock; one read of m_version).              *)
(***************************************************************************)
CheckReceivedHeader(packet_type, version, body_size) ==
    /\ SomeIdle
    /\ last' = [Returned("CheckReceivedHeader") EXCEPT
                    !.packet_type = packet_type,
                    !.version = version,
                    !.body_size = body_size,
                    !.result = CheckReceivedHeaderResult(packet_type, version,
                                                         body_size)]
    /\ UNCHANGED <<shared, m_mutex, next_id, pc>>

(***************************************************************************)
(* Mux::ProcessReceivePacket (under the lock).  SendErrorPacket's result   *)
(* is not looked at.                                                       *)
(***************************************************************************)
\* ProcessReceivePacket answering a Data packet only.
ProcessReceivePacket_DataOnly(packet_type, channel) ==
    /\ SomeIdle
    /\ m_mutex = NoThread
    /\ ~Exists(channel)
    /\ IF packet_type = "Data"
       THEN SendErrorPacketBody(channel, CanAllocate)
       ELSE UNCHANGED <<m_global_send_buffer, next_id, m_event>>
    /\ last' = [Returned("ProcessReceivePacket") EXCEPT
                    !.packet_type = packet_type,
                    !.channel = channel,
                    !.result = "ChannelNotExist"]
    /\ UNCHANGED <<m_state, m_version, m_channel_impl_map, m_mutex, pc>>

\* ProcessReceivePacket answering a packet of any type.
ProcessReceivePacket_AnyType(packet_type, channel) ==
    /\ SomeIdle
    /\ m_mutex = NoThread
    /\ ~Exists(channel)
    /\ SendErrorPacketBody(channel, CanAllocate)
    /\ last' = [Returned("ProcessReceivePacket") EXCEPT
                    !.packet_type = packet_type,
                    !.channel = channel,
                    !.result = "ChannelNotExist"]
    /\ UNCHANGED <<m_state, m_version, m_channel_impl_map, m_mutex, pc>>

ProcessReceivePacket(packet_type, channel) ==
    /\ SomeIdle
    /\ m_mutex = NoThread
    /\ IF Exists(channel)
       THEN /\ \E r \in ChannelResults :
                 last' = [Returned("ProcessReceivePacket") EXCEPT
                              !.packet_type = packet_type,
                              !.channel = channel,
                              !.result = r]
            /\ UNCHANGED <<m_global_send_buffer, next_id, m_event>>
       ELSE /\ IF RepliesWithError(packet_type)
               THEN SendErrorPacketBody(channel, CanAllocate)
               ELSE UNCHANGED <<m_global_send_buffer, next_id, m_event>>
            /\ last' = [Returned("ProcessReceivePacket") EXCEPT
                            !.packet_type = packet_type,
                            !.channel = channel,
                            !.result = "ChannelNotExist"]
    /\ UNCHANGED <<m_state, m_version, m_channel_impl_map, m_mutex, pc>>

(***************************************************************************)
(* Mux::QuerySendPacket (under the lock): the error packet first, then the *)
(* loop over the channels.  keep: the caller is the transmit pump, which   *)
(* transmits the packet it is given and then calls RemovePacket with its   *)
(* header, and waits for the event when it is given none (the header       *)
(* buffer then holds what was copied out); any other caller only looks.    *)
(***************************************************************************)
AfterQuery(t, keep, found, packet) ==
    IF ~keep THEN Idle
    ELSE IF found
    THEN [At("RemovePacket", "transmit", 0, 0) EXCEPT !.header = packet]
    ELSE [At("WaitEvent", "wait", 0, 0) EXCEPT !.header = packet]

\* QuerySendPacket going to the channels without a look at the error packets.
QuerySendPacket_ChannelsFirst(t, keep) ==
    /\ CanCall(t)
    /\ m_mutex = NoThread
    /\ m_mutex' = t
    /\ pc' = [pc EXCEPT ![t] =
                 [At("QuerySendPacket", "loop", 0, 0) EXCEPT !.keep = keep]]
    /\ last' = NoCall
    /\ UNCHANGED <<shared, next_id>>

\* QuerySendPacket taking the error packet it returns out of the queue.
QuerySendPacket_Retires(t, keep) ==
    /\ CanCall(t)
    /\ m_mutex = NoThread
    /\ IF GetNextPacket(m_global_send_buffer) # NoHeader
       THEN /\ last' = [Returned("QuerySendPacket") EXCEPT
                            !.found = TRUE,
                            !.header = GetNextPacket(m_global_send_buffer),
                            !.body_size = 0]
            /\ pc' = [pc EXCEPT ![t] =
                         AfterQuery(t, keep, TRUE,
                                    GetNextPacket(m_global_send_buffer))]
            /\ m_global_send_buffer' = PopPacket(m_global_send_buffer)
            /\ UNCHANGED m_mutex
       ELSE /\ m_mutex' = t
            /\ pc' = [pc EXCEPT ![t] =
                         [At("QuerySendPacket", "loop", 0, 0) EXCEPT
                              !.keep = keep]]
            /\ last' = NoCall
            /\ UNCHANGED m_global_send_buffer
    /\ UNCHANGED <<m_state, m_version, m_event, m_channel_impl_map, next_id>>

\* QuerySendPacket asking IsSendable for the error packet as well.
QuerySendPacket_GatedBySleep(t, keep) ==
    /\ CanCall(t)
    /\ m_mutex = NoThread
    /\ IF GetNextPacket(m_global_send_buffer) # NoHeader
       THEN LET found == IsSendable("Error")
            IN  /\ last' = [Returned("QuerySendPacket") EXCEPT
                                !.found = found,
                                !.header = GetNextPacket(m_global_send_buffer),
                                !.body_size = 0]
                /\ pc' = [pc EXCEPT ![t] =
                             AfterQuery(t, keep, found,
                                        GetNextPacket(m_global_send_buffer))]
                /\ UNCHANGED m_mutex
       ELSE /\ m_mutex' = t
            /\ pc' = [pc EXCEPT ![t] =
                         [At("QuerySendPacket", "loop", 0, 0) EXCEPT
                              !.keep = keep]]
            /\ last' = NoCall
    /\ UNCHANGED <<shared, next_id>>

QuerySendPacket(t, keep) ==
    /\ CanCall(t)
    /\ m_mutex = NoThread
    /\ IF GetNextPacket(m_global_send_buffer) # NoHeader
       THEN /\ last' = [Returned("QuerySendPacket") EXCEPT
                            !.found = TRUE,
                            !.header = GetNextPacket(m_global_send_buffer),
                            !.body_size = 0]
            /\ pc' = [pc EXCEPT ![t] =
                         AfterQuery(t, keep, TRUE,
                                    GetNextPacket(m_global_send_buffer))]
            /\ UNCHANGED m_mutex
       ELSE /\ m_mutex' = t
            /\ pc' = [pc EXCEPT ![t] =
                         [At("QuerySendPacket", "loop", 0, 0) EXCEPT
                              !.keep = keep]]
            /\ last' = NoCall
    /\ UNCHANGED <<shared, next_id>>

\* The loop going on after a channel answered: the last ready channel wins.
QuerySendPacketLoop_LastMatch(t) ==
    /\ pc[t].op = "QuerySendPacket" /\ pc[t].stage = "loop"
    /\ LET ready == {c \in DOMAIN m_channel_impl_map :
                        ChannelQuerySendPacket(c)}
       IN  IF ready # {}
           THEN LET c == CHOOSE x \in ready : \A y \in ready : y <= x
                    packet == Head(m_channel_impl_map[c].send)
                    found  == IsSendable(packet.packet_type)
                IN  /\ last' = [Returned("QuerySendPacket") EXCEPT
                                    !.found = found,
                                    !.header = packet,
                                    !.body_size =
                                        IF packet.packet_type = "Data"
                                        THEN MaxBody ELSE 0]
                    /\ pc' = [pc EXCEPT ![t] =
                                 AfterQuery(t, pc[t].keep, found, packet)]
           ELSE /\ last' = Returned("QuerySendPacket")
                /\ pc' = [pc EXCEPT ![t] =
                             AfterQuery(t, pc[t].keep, FALSE, NoHeader)]
    /\ m_mutex' = NoThread
    /\ UNCHANGED <<shared, next_id>>

QuerySendPacketLoop(t) ==
    /\ pc[t].op = "QuerySendPacket" /\ pc[t].stage = "loop"
    /\ LET c == FirstReadyChannel
       IN  IF c # 0
           THEN LET packet == Head(m_channel_impl_map[c].send)
                    found  == IsSendable(packet.packet_type)
                IN  /\ last' = [Returned("QuerySendPacket") EXCEPT
                                    !.found = found,
                                    !.header = packet,
                                    !.body_size =
                                        IF packet.packet_type = "Data"
                                        THEN MaxBody ELSE 0]
                    /\ pc' = [pc EXCEPT ![t] =
                                 AfterQuery(t, pc[t].keep, found, packet)]
           ELSE /\ last' = Returned("QuerySendPacket")
                /\ pc' = [pc EXCEPT ![t] =
                             AfterQuery(t, pc[t].keep, FALSE, NoHeader)]
    /\ m_mutex' = NoThread
    /\ UNCHANGED <<shared, next_id>>

\* What a QuerySendPacket call made in the current state returns: whether a
\* packet was found and the header copied out.
QueryOutcome ==
    IF GetNextPacket(m_global_send_buffer) # NoHeader
    THEN [found |-> TRUE, header |-> GetNextPacket(m_global_send_buffer)]
    ELSE IF FirstReadyChannel # 0
    THEN LET packet == Head(m_channel_impl_map[FirstReadyChannel].send)
         IN  [found |-> IsSendable(packet.packet_type), header |-> packet]
    ELSE [found |-> FALSE, header |-> NoHeader]

(***************************************************************************)
(* Mux::RemovePacket (under the lock).  An Error header is passed only     *)
(* for a packet that the control queue holds.  RemovePacket is the call    *)
(* with any header, PumpRemovePacket the call of the transmit pump with    *)
(* the header QuerySendPacket gave it.                                     *)
(***************************************************************************)
\* RemovePacket taking the newest error packet from the queue.
RemovePacketBody_PopsNewest(packet_type, channel) ==
    /\ m_mutex = NoThread
    /\ packet_type = "Error" => m_global_send_buffer # <<>>
    /\ IF packet_type = "Error"
       THEN /\ m_global_send_buffer' =
                   SubSeq(m_global_send_buffer, 1,
                          Len(m_global_send_buffer) - 1)
            /\ UNCHANGED m_channel_impl_map
       ELSE IF Exists(channel)
       THEN /\ m_channel_impl_map' =
                   ChannelRemovePacket(m_channel_impl_map, channel)
            /\ UNCHANGED m_global_send_buffer
       ELSE UNCHANGED <<m_global_send_buffer, m_channel_impl_map>>
    /\ last' = [Returned("RemovePacket") EXCEPT
                    !.packet_type = packet_type,
                    !.channel = channel,
                    !.notified = 1]
    /\ UNCHANGED <<m_state, m_version, m_event, m_mutex, next_id>>

\* RemovePacket notifying only when it removed from a channel or the queue.
RemovePacketBody_NotifyInBranch(packet_type, channel) ==
    /\ m_mutex = NoThread
    /\ packet_type = "Error" => m_global_send_buffer # <<>>
    /\ IF packet_type = "Error"
       THEN /\ m_global_send_buffer' = PopPacket(m_global_send_buffer)
            /\ UNCHANGED m_channel_impl_map
       ELSE IF Exists(channel)
       THEN /\ m_channel_impl_map' =
                   ChannelRemovePacket(m_channel_impl_map, channel)
            /\ UNCHANGED m_global_send_buffer
       ELSE UNCHANGED <<m_global_send_buffer, m_channel_impl_map>>
    /\ last' = [Returned("RemovePacket") EXCEPT
                    !.packet_type = packet_type,
                    !.channel = channel,
                    !.notified =
                        IF packet_type = "Error" \/ Exists(channel)
                        THEN 1 ELSE 0]
    /\ UNCHANGED <<m_state, m_version, m_event, m_mutex, next_id>>

RemovePacketBody(packet_type, channel) ==
    /\ m_mutex = NoThread
    /\ packet_type = "Error" => m_global_send_buffer # <<>>
    /\ IF packet_type = "Error"
       THEN /\ m_global_send_buffer' = PopPacket(m_global_send_buffer)
            /\ UNCHANGED m_channel_impl_map
       ELSE IF Exists(channel)
       THEN /\ m_channel_impl_map' =
                   ChannelRemovePacket(m_channel_impl_map, channel)
            /\ UNCHANGED m_global_send_buffer
       ELSE UNCHANGED <<m_global_send_buffer, m_channel_impl_map>>
    /\ last' = [Returned("RemovePacket") EXCEPT
                    !.packet_type = packet_type,
                    !.channel = channel,
                    !.notified = 1]
    /\ UNCHANGED <<m_state, m_version, m_event, m_mutex, next_id>>

RemovePacket(packet_type, channel) ==
    /\ SomeIdle
    /\ RemovePacketBody(packet_type, channel)
    /\ UNCHANGED pc

PumpRemovePacket(t) ==
    /\ pc[t].op = "RemovePacket" /\ pc[t].stage = "transmit"
    /\ RemovePacketBody(pc[t].header.packet_type, pc[t].header.channel)
    /\ pc' = [pc EXCEPT ![t] = Idle]

(***************************************************************************)
(* Mux::UpdateChannelState (under the lock): ChannelImpl::UpdateState of   *)
(* every channel, which touches nothing of the multiplexer.                *)
(***************************************************************************)
UpdateChannelState ==
    /\ SomeIdle
    /\ m_mutex = NoThread
    /\ last' = Returned("UpdateChannelState")
    /\ UNCHANGED <<shared, m_mutex, next_id, pc>>

(***************************************************************************)
(* Mux::UpdateMuxState (under the lock); sleeping is IsSleeping()'s        *)
(* answer.                                                                 *)
(***************************************************************************)
\* UpdateMuxState without the signal when the multiplexer wakes up.
UpdateMuxState_NoSignal(sleeping) ==
    /\ SomeIdle
    /\ m_mutex = NoThread
    /\ m_state' = IF sleeping THEN "Sleep" ELSE "Normal"
    /\ last' = [Returned("UpdateMuxState") EXCEPT !.sleeping = sleeping]
    /\ UNCHANGED <<m_version, m_event, m_global_send_buffer,
                   m_channel_impl_map, m_mutex, next_id, pc>>

UpdateMuxState(sleeping) ==
    /\ SomeIdle
    /\ m_mutex = NoThread
    /\ IF sleeping
       THEN /\ m_state' = "Sleep"
            /\ UNCHANGED m_event
       ELSE /\ m_state' = "Normal"
            /\ m_event' = TRUE
    /\ last' = [Returned("UpdateMuxState") EXCEPT !.sleeping = sleeping]
    /\ UNCHANGED <<m_version, m_global_send_buffer, m_channel_impl_map,
                   m_mutex, next_id, pc>>

(***************************************************************************)
(* Mux::CheckChannelExist (no lock).                                       *)
(***************************************************************************)
CheckChannelExist(channel) ==
    /\ SomeIdle
    /\ last' = [Returned("CheckChannelExist") EXCEPT
                    !.channel = channel,
                    !.result = IF Exists(channel) THEN "Success"
                               ELSE "ChannelNotExist"]
    /\ UNCHANGED <<shared, m_mutex, next_id, pc>>

(***************************************************************************)
(* Mux::SendErrorPacket (no lock).                                         *)
(***************************************************************************)
SendErrorPacket(channel) ==
    /\ SomeIdle
    /\ SendErrorPacketBody(channel, CanAllocate)
    /\ last' = [Returned("SendErrorPacket") EXCEPT
                    !.channel = channel,
                    !.result = SendErrorPacketResult(CanAllocate)]
    /\ UNCHANGED <<m_state, m_version, m_channel_impl_map, m_mutex, pc>>

(***************************************************************************)
(* Mux::Open (under the lock, which it keeps over three steps): the        *)
(* existence check and AddChannel; the read of m_version; SetVersion on    *)
(* the new channel.  AddChannel can fail.                                  *)
(***************************************************************************)
\* Open without the existence check.
Open_NoExistenceCheck(t, channel) ==
    /\ CanCall(t)
    /\ m_mutex = NoThread
    /\ m_channel_impl_map' = AddChannel(m_channel_impl_map, channel)
    /\ m_mutex' = t
    /\ pc' = [pc EXCEPT ![t] = At("Open", "read", channel, 0)]
    /\ last' = NoCall
    /\ UNCHANGED <<m_state, m_version, m_event, m_global_send_buffer, next_id>>

\* Open returning ChannelAlreadyExist without giving the lock back.
Open_KeepsLockOnError(t, channel) ==
    /\ CanCall(t)
    /\ m_mutex = NoThread
    /\ IF Exists(channel)
       THEN /\ last' = [Returned("Open") EXCEPT
                            !.channel = channel,
                            !.result = "ChannelAlreadyExist"]
            /\ m_mutex' = t
            /\ UNCHANGED <<m_channel_impl_map, pc>>
       ELSE \E ok \in BOOLEAN :
               IF ok
               THEN /\ m_channel_impl_map' =
                           AddChannel(m_channel_impl_map, channel)
                    /\ m_mutex' = t
                    /\ pc' = [pc EXCEPT ![t] = At("Open", "read", channel, 0)]
                    /\ last' = NoCall
               ELSE /\ last' = [Returned("Open") EXCEPT
                                    !.channel = channel,
                                    !.result = "OutOfChannel"]
                    /\ UNCHANGED <<m_channel_impl_map, m_mutex, pc>>
    /\ UNCHANGED <<m_state, m_version, m_event, m_global_send_buffer, next_id>>

Open(t, channel) ==
    /\ CanCall(t)
    /\ m_mutex = NoThread
    /\ IF Exists(channel)
       THEN /\ last' = [Returned("Open") EXCEPT
                            !.channel = channel,
                            !.result = "ChannelAlreadyExist"]
            /\ UNCHANGED <<m_channel_impl_map, m_mutex, pc>>
       ELSE \E ok \in BOOLEAN :
               IF ok
               THEN /\ m_channel_impl_map' =
                           AddChannel(m_channel_impl_map, channel)
                    /\ m_mutex' = t
                    /\ pc' = [pc EXCEPT ![t] = At("Open", "read", channel, 0)]
                    /\ last' = NoCall
               ELSE /\ last' = [Returned("Open") EXCEPT
                                    !.channel = channel,
                                    !.result = "OutOfChannel"]
                    /\ UNCHANGED <<m_channel_impl_map, m_mutex, pc>>
    /\ UNCHANGED <<m_state, m_version, m_event, m_global_send_buffer, next_id>>

OpenReadVersion(t) ==
    /\ pc[t].op = "Open" /\ pc[t].stage = "read"
    /\ pc' = [pc EXCEPT ![t].stage = "write", ![t].version = m_version]
    /\ last' = NoCall
    /\ UNCHANGED <<shared, m_mutex, next_id>>

\* Open leaving the new channel at the version AddChannel gave it.
OpenSetVersion_Skipped(t) ==
    /\ pc[t].op = "Open" /\ pc[t].stage = "write"
    /\ m_mutex' = NoThread
    /\ pc' = [pc EXCEPT ![t] = Idle]
    /\ last' = [Returned("Open") EXCEPT
                    !.channel = pc[t].channel,
                    !.result = "Success"]
    /\ UNCHANGED <<shared, next_id>>

OpenSetVersion(t) ==
    /\ pc[t].op = "Open" /\ pc[t].stage = "write"
    /\ m_channel_impl_map' =
           ChannelSetVersion(m_channel_impl_map, pc[t].channel, pc[t].version)
    /\ m_mutex' = NoThread
    /\ pc' = [pc EXCEPT ![t] = Idle]
    /\ last' = [Returned("Open") EXCEPT
                    !.channel = pc[t].channel,
                    !.result = "Success"]
    /\ UNCHANGED <<m_state, m_version, m_event, m_global_send_buffer, next_id>>

(***************************************************************************)
(* Mux::SetSendBuffer, SetSendBufferWithData and SetReceiveBuffer (under   *)
(* the lock).  AMS_ABORT_UNLESS ends the process when the channel is not   *)
(* in the map: the thread stays where it is, with the lock, and nothing    *)
(* runs any more (Running).                                                *)
(***************************************************************************)
Aborted == \E t \in Threads : pc[t].stage = "aborted"

Running == ~Aborted

\* The buffer setters returning an error for a channel that is not in the map.
SetBuffer_ReturnsError(t, op, channel, map) ==
    /\ CanCall(t)
    /\ m_mutex = NoThread
    /\ IF Exists(channel)
       THEN /\ m_channel_impl_map' = map
            /\ last' = [Returned(op) EXCEPT !.channel = channel]
       ELSE /\ last' = [Returned(op) EXCEPT !.channel = channel,
                                             !.result = "ChannelNotExist"]
            /\ UNCHANGED m_channel_impl_map
    /\ UNCHANGED <<m_state, m_version, m_event, m_global_send_buffer,
                   m_mutex, next_id, pc>>

\* The body the three setters share: find the channel, abort without it,
\* else hand the buffer to the channel (map is the map with it installed).
SetBuffer(t, op, channel, map) ==
    /\ CanCall(t)
    /\ m_mutex = NoThread
    /\ IF Exists(channel)
       THEN /\ m_channel_impl_map' = map
            /\ last' = [Returned(op) EXCEPT !.channel = channel]
            /\ UNCHANGED <<m_mutex, pc>>
       ELSE /\ pc' = [pc EXCEPT ![t] = At(op, "aborted", channel, 0)]
            /\ m_mutex' = t
            /\ last' = NoCall
            /\ UNCHANGED m_channel_impl_map
    /\ UNCHANGED <<m_state, m_version, m_event, m_global_send_buffer, next_id>>

SetSendBuffer(t, channel) ==
    SetBuffer(t, "SetSendBuffer", channel,
              ChannelSetSendBuffer(m_channel_impl_map, channel, "Buffer"))

SetSendBufferWithData(t, channel) ==
    SetBuffer(t, "SetSendBufferWithData", channel,
              ChannelSetSendBuffer(m_channel_impl_map, channel,
                                   "BufferWithData"))

SetReceiveBuffer(t, channel) ==
    SetBuffer(t, "SetReceiveBuffer", channel,
              ChannelSetReceiveBuffer(m_channel_impl_map, channel))

(***************************************************************************)
(* The environment.  A channel gets a packet ready to send (the channel's  *)
(* own send path, which signals the event it was given), and a waiter      *)
(* clears the manual-clear event.                                          *)
(***************************************************************************)
ChannelSend(channel, packet_type) ==
    /\ m_mutex = NoThread
    /\ Exists(channel)
    /\ CanAllocate
    /\ m_channel_impl_map' =
           [m_channel_impl_map EXCEPT ![channel].send =
               Append(@, [packet_type |-> packet_type, channel |-> channel,
                          id |-> next_id])]
    /\ next_id' = next_id + 1
    /\ m_event' = TRUE
    /\ last' = NoCall
    /\ UNCHANGED <<m_state, m_version, m_global_send_buffer, m_mutex, pc>>

\* The transmit pump, given nothing to send, waits for the event and clears
\* it before it asks again.
PumpWaitEvent(t) ==
    /\ pc[t].op = "WaitEvent" /\ pc[t].stage = "wait"
    /\ m_event = TRUE
    /\ m_event' = FALSE
    /\ pc' = [pc EXCEPT ![t] = Idle]
    /\ last' = NoCall
    /\ UNCHANGED <<m_state, m_version, m_global_send_buffer,
                   m_channel_impl_map, m_mutex, next_id>>

ClearEvent ==
    /\ m_event = TRUE
    /\ m_event' = FALSE
    /\ last' = NoCall
    /\ UNCHANGED <<m_state, m_version, m_global_send_buffer,
                   m_channel_impl_map, m_mutex, next_id, pc>>

(***************************************************************************)
(* Two multiplexers as peers.  This side is the multiplexer above; of the  *)
(* other side only the control queue matters, as neither side has a        *)
(* channel open.  A packet for a channel that is not open reaches this     *)
(* side (ReceiveStray) or the other (PeerReceiveStray); each side's pump   *)
(* puts the packets of its control queue on the wire and each side's       *)
(* receive path takes them off and runs ProcessReceivePacket.  Both sides  *)
(* count the stray packets they got.  Alone: the step involves no peer and *)
(* no wire.                                                                *)
(***************************************************************************)
Alone == UNCHANGED <<peer, wire>>

ReceiveStray(packet_type, channel) ==
    /\ wire.received <= MaxPkt
    /\ ProcessReceivePacket(packet_type, channel)
    /\ wire' = [wire EXCEPT !.received = @ + 1]
    /\ UNCHANGED peer

\* This side's pump has transmitted the packet QuerySendPacket gave it: the
\* packet is on the wire and RemovePacket is called with its header.
Transmit(t) ==
    /\ PumpRemovePacket(t)
    /\ wire' = [wire EXCEPT !.to_peer = Append(@, pc[t].header)]
    /\ UNCHANGED peer

\* The other side's ProcessReceivePacket, for a channel it does not have:
\* its control queue and its packet factory after the call.
PeerReply(packet_type, channel) ==
    IF RepliesWithError(packet_type) /\ peer.made < MaxPkt
    THEN [peer EXCEPT !.m_global_send_buffer =
                          AddPacket(@, [packet_type |-> "Error",
                                        channel |-> channel,
                                        id |-> peer.made + 1]),
                      !.made = @ + 1]
    ELSE peer

PeerReceiveStray(packet_type, channel) ==
    /\ peer.received <= MaxPkt
    /\ peer' = [PeerReply(packet_type, channel) EXCEPT !.received = @ + 1]
    /\ last' = NoCall
    /\ UNCHANGED <<shared, m_mutex, next_id, pc, wire>>

\* The other side's receive path takes this side's packet off the wire.
PeerProcessReceivePacket ==
    /\ wire.to_peer # <<>>
    /\ peer' = PeerReply(Head(wire.to_peer).packet_type,
                         Head(wire.to_peer).channel)
    /\ wire' = [wire EXCEPT !.to_peer = Tail(@)]
    /\ last' = NoCall
    /\ UNCHANGED <<shared, m_mutex, next_id, pc>>

\* The other side's pump: QuerySendPacket, transmission, RemovePacket.
PeerTransmit ==
    /\ GetNextPacket(peer.m_global_send_buffer) # NoHeader
    /\ wire' = [wire EXCEPT !.from_peer =
                    Append(@, GetNextPacket(peer.m_global_send_buffer))]
    /\ peer' = [peer EXCEPT !.m_global_send_buffer = PopPacket(@)]
    /\ last' = NoCall
    /\ UNCHANGED <<shared, m_mutex, next_id, pc>>

\* This side's receive path takes the other side's packet off the wire.
ReceiveFromPeer ==
    /\ wire.from_peer # <<>>
    /\ ProcessReceivePacket(Head(wire.from_peer).packet_type,
                            Head(wire.from_peer).channel)
    /\ wire' = [wire EXCEPT !.from_peer = Tail(@)]
    /\ UNCHANGED peer

Next ==
    \/ \E t \in Threads, v \in Versions : SetVersion(t, v) /\ Alone
    \/ \E t \in Threads : SetVersionLoop(t) /\ Alone
    \/ \E k \in PacketTypes, c \in Channels : ProcessReceivePacket(k, c)
          /\ Alone
    \/ \E t \in Threads : QuerySendPacket(t, FALSE) /\ Alone
    \/ \E t \in Threads : QuerySendPacketLoop(t) /\ Alone
    \/ \E k \in PacketTypes, c \in Channels : RemovePacket(k, c) /\ Alone
    \/ UpdateChannelState /\ Alone
    \/ \E b \in BOOLEAN : UpdateMuxState(b) /\ Alone
    \/ \E c \in Channels : CheckChannelExist(c) /\ Alone
    \/ \E c \in Channels : SendErrorPacket(c) /\ Alone
    \/ \E t \in Threads, c \in Channels : Open(t, c) /\ Alone
    \/ \E t \in Threads : OpenReadVersion(t) /\ Alone
    \/ \E t \in Threads : OpenSetVersion(t) /\ Alone
    \/ \E c \in Channels, k \in DataTypes : ChannelSend(c, k) /\ Alone
    \/ ClearEvent /\ Alone

Spec == Init /\ [][Next]_vars

(***************************************************************************)
(* The header check on its own: the version is set (and channels opened),  *)
(* and headers of every kind, version and body size are checked.           *)
(***************************************************************************)
HeaderNext ==
    \/ \E t \in Threads, v \in Versions : SetVersion(t, v) /\ Alone
    \/ \E t \in Threads : SetVersionLoop(t) /\ Alone
    \/ \E k \in PacketTypes, v \in Versions, s \in BodySizes :
          CheckReceivedHeader(k, v, s) /\ Alone
    \/ \E t \in Threads, c \in Channels : Open(t, c) /\ Alone
    \/ \E t \in Threads : OpenReadVersion(t) /\ Alone
    \/ \E t \in Threads : OpenSetVersion(t) /\ Alone

HeaderSpec == Init /\ [][HeaderNext]_vars

(***************************************************************************)
(* Calls made one after the other: a call starts only when no thread is    *)
(* inside one.                                                             *)
(***************************************************************************)
Quiet == \A t \in Threads : CanCall(t)

SeqNext ==
    \/ \E t \in Threads, v \in Versions : Quiet /\ SetVersion(t, v) /\ Alone
    \/ \E t \in Threads : SetVersionLoop(t) /\ Alone
    \/ \E t \in Threads, c \in Channels : Quiet /\ Open(t, c) /\ Alone
    \/ \E t \in Threads : OpenReadVersion(t) /\ Alone
    \/ \E t \in Threads : OpenSetVersion(t) /\ Alone
    \/ \E c \in Channels : Quiet /\ CheckChannelExist(c) /\ Alone

SeqSpec == Init /\ [][SeqNext]_vars

(***************************************************************************)
(* The transmit pump.  One thread asks for the next packet, transmits it   *)
(* and has it removed, or waits for the event when there is none; the      *)
(* other threads open channels, give them packets to send, receive packets *)
(* and update the sleep state.  The pump gets the lock again and again,    *)
(* and a thread that is inside a call finishes it.                         *)
(***************************************************************************)
Pump == MinOf(Threads)

PumpStep ==
    \/ QuerySendPacket(Pump, TRUE)
    \/ QuerySendPacketLoop(Pump)
    \/ PumpRemovePacket(Pump)
    \/ PumpWaitEvent(Pump)

OthersFinish ==
    \E t \in Threads \ {Pump} :
        \/ QuerySendPacketLoop(t)
        \/ OpenReadVersion(t)
        \/ OpenSetVersion(t)

LiveNext ==
    \/ PumpStep /\ Alone
    \/ OthersFinish /\ Alone
    \/ \E t \in Threads \ {Pump} : QuerySendPacket(t, FALSE) /\ Alone
    \/ \E t \in Threads \ {Pump}, c \in Channels : Open(t, c) /\ Alone
    \/ \E k \in PacketTypes, c \in Channels : ProcessReceivePacket(k, c)
          /\ Alone
    \/ \E b \in BOOLEAN : UpdateMuxState(b) /\ Alone
    \/ \E c \in Channels, k \in DataTypes : ChannelSend(c, k) /\ Alone

LiveSpec ==
    Init /\ [][LiveNext]_vars /\ SF_vars(PumpStep /\ Alone)
         /\ WF_vars(OthersFinish /\ Alone)

(***************************************************************************)
(* The transmit pump among every operation of the multiplexer: as above,   *)
(* and the other threads also set the version, send error packets, check   *)
(* for channels and update the channels' state.  Only the pump waits for   *)
(* the event and only the pump has packets removed.                        *)
(***************************************************************************)
OthersComplete ==
    \E t \in Threads \ {Pump} :
        \/ QuerySendPacketLoop(t)
        \/ OpenReadVersion(t)
        \/ OpenSetVersion(t)
        \/ SetVersionLoop(t)

PumpNext ==
    \/ PumpStep /\ Alone
    \/ OthersComplete /\ Alone
    \/ \E t \in Threads \ {Pump} : QuerySendPacket(t, FALSE) /\ Alone
    \/ \E t \in Threads \ {Pump}, c \in Channels : Open(t, c) /\ Alone
    \/ \E t \in Threads \ {Pump}, v \in Versions : SetVersion(t, v) /\ Alone
    \/ \E k \in PacketTypes, c \in Channels : ProcessReceivePacket(k, c)
          /\ Alone
    \/ \E c \in Channels : SendErrorPacket(c) /\ Alone
    \/ \E c \in Channels : CheckChannelExist(c) /\ Alone
    \/ UpdateChannelState /\ Alone
    \/ \E b \in BOOLEAN : UpdateMuxState(b) /\ Alone
    \/ \E c \in Channels, k \in DataTypes : ChannelSend(c, k) /\ Alone

PumpSpec ==
    Init /\ [][PumpNext]_vars /\ SF_vars(PumpStep /\ Alone)
         /\ WF_vars(OthersComplete /\ Alone)

(***************************************************************************)
(* Selection and retirement, one call after the other: packets are         *)
(* received, queued, made ready on channels, queried and removed, and the  *)
(* sleep state is updated, each call starting when no call is in progress. *)
(***************************************************************************)
QueryNext ==
    \/ \E t \in Threads : Quiet /\ QuerySendPacket(t, FALSE) /\ Alone
    \/ \E t \in Threads : QuerySendPacketLoop(t) /\ Alone
    \/ \E k \in PacketTypes, c \in Channels : Quiet /\ RemovePacket(k, c)
          /\ Alone
    \/ \E k \in PacketTypes, c \in Channels :
          Quiet /\ ProcessReceivePacket(k, c) /\ Alone
    \/ \E c \in Channels : Quiet /\ SendErrorPacket(c) /\ Alone
    \/ \E b \in BOOLEAN : Quiet /\ UpdateMuxState(b) /\ Alone
    \/ \E t \in Threads, c \in Channels : Quiet /\ Open(t, c) /\ Alone
    \/ \E t \in Threads : OpenReadVersion(t) /\ Alone
    \/ \E t \in Threads : OpenSetVersion(t) /\ Alone
    \/ \E c \in Channels, k \in DataTypes : Quiet /\ ChannelSend(c, k) /\ Alone

QuerySpec == Init /\ [][QueryNext]_vars

(***************************************************************************)
(* The lock under fair scheduling.  Every thread calls Open and            *)
(* QuerySendPacket, the operations that keep the lock over several steps:  *)
(* a thread that is in no call is waiting for the lock, and is not passed  *)
(* over for ever; a thread that has the lock finishes its call.  The       *)
(* operations that are one step are made in between.  SetVersion, which    *)
(* takes no lock, is left out.                                             *)
(***************************************************************************)
Acquire(t) ==
    \/ \E c \in Channels : Open(t, c)
    \/ QuerySendPacket(t, FALSE)

Finish(t) ==
    \/ QuerySendPacketLoop(t)
    \/ OpenReadVersion(t)
    \/ OpenSetVersion(t)

LockNext ==
    \/ \E t \in Threads : Acquire(t) /\ Alone
    \/ \E t \in Threads : Finish(t) /\ Alone
    \/ \E k \in PacketTypes, c \in Channels : ProcessReceivePacket(k, c)
          /\ Alone
    \/ \E k \in PacketTypes, c \in Channels : RemovePacket(k, c) /\ Alone
    \/ UpdateChannelState /\ Alone
    \/ \E b \in BOOLEAN : UpdateMuxState(b) /\ Alone
    \/ \E c \in Channels : CheckChannelExist(c) /\ Alone
    \/ \E c \in Channels : SendErrorPacket(c) /\ Alone

LockSpec ==
    /\ Init /\ [][LockNext]_vars
    /\ \A t \in Threads : /\ WF_vars(Finish(t) /\ Alone)
                           /\ SF_vars(Acquire(t) /\ Alone)

(***************************************************************************)
(* Channel configuration, one call after the other: channels are opened    *)
(* and given buffers, the version is set, packets are received and made    *)
(* ready and the sleep state is updated, until a setter aborts.            *)
(***************************************************************************)
\* A call starts when the process runs and no call is in progress.
Ready == Running /\ Quiet

BufferNext ==
    \/ \E t \in Threads, c \in Channels : Ready /\ SetSendBuffer(t, c) /\ Alone
    \/ \E t \in Threads, c \in Channels :
          Ready /\ SetSendBufferWithData(t, c) /\ Alone
    \/ \E t \in Threads, c \in Channels : Ready /\ SetReceiveBuffer(t, c)
          /\ Alone
    \/ \E t \in Threads, c \in Channels : Ready /\ Open(t, c) /\ Alone
    \/ \E t \in Threads : OpenReadVersion(t) /\ Alone
    \/ \E t \in Threads : OpenSetVersion(t) /\ Alone
    \/ \E t \in Threads, v \in Versions : Ready /\ SetVersion(t, v) /\ Alone
    \/ \E t \in Threads : SetVersionLoop(t) /\ Alone
    \/ \E k \in PacketTypes, c \in Channels :
          Ready /\ ProcessReceivePacket(k, c) /\ Alone
    \/ \E b \in BOOLEAN : Ready /\ UpdateMuxState(b) /\ Alone
    \/ \E c \in Channels, k \in DataTypes : Ready /\ ChannelSend(c, k) /\ Alone

BufferSpec == Init /\ [][BufferNext]_vars

(***************************************************************************)
(* The exchange between the peers: stray packets arrive on either side,    *)
(* the sleep state is updated, and the pumps and the receive paths of both *)
(* sides keep running.  The four are threads of their own; this side's     *)
(* receive path needs the lock the pump takes again and again, and gets it *)
(* in the end.                                                             *)
(***************************************************************************)
Exchange ==
    \/ (QuerySendPacket(Pump, TRUE) /\ Alone)
    \/ (QuerySendPacketLoop(Pump) /\ Alone)
    \/ (PumpWaitEvent(Pump) /\ Alone)
    \/ Transmit(Pump)

PeerNext ==
    \/ Exchange
    \/ PeerProcessReceivePacket
    \/ PeerTransmit
    \/ ReceiveFromPeer
    \/ \E k \in DataTypes, c \in Channels : ReceiveStray(k, c)
    \/ \E k \in DataTypes, c \in Channels : PeerReceiveStray(k, c)
    \/ \E b \in BOOLEAN : UpdateMuxState(b) /\ Alone

PeerSpec ==
    /\ Init /\ [][PeerNext]_vars
    /\ WF_vars(Exchange)
    /\ WF_vars(PeerProcessReceivePacket)
    /\ WF_vars(PeerTransmit)
    /\ SF_vars(ReceiveFromPeer)

(***************************************************************************)
(* Properties.                                                             *)
(***************************************************************************)

\* A step in which ProcessReceivePacket returns for a packet of one of the
\* given types whose channel is not in the map.
ReceivedForUnknown(types) ==
    /\ last'.op = "ProcessReceivePacket"
    /\ last'.packet_type \in types
    /\ ~Exists(last'.channel)

\* C1: control precedes data.  A QuerySendPacket that finds the control queue
\* non-empty when it looks at it (right after taking the lock) never goes on
\* to the channels: it returns true with the header of the queue's first
\* packet, an Error header, never a Data or MaxData header of a channel.
C1_ControlPrecedesData ==
    [][ m_global_send_buffer # <<>> =>
          /\ \A t \in Threads :
                pc'[t].op = "QuerySendPacket" => pc[t].op = "QuerySendPacket"
          /\ (last'.op = "QuerySendPacket" /\ m_mutex = NoThread) =>
                /\ last'.found
                /\ last'.header = Head(m_global_send_buffer)
                /\ last'.header.packet_type = "Error" ]_vars

\* QuerySendPacket has returned the pending error packet while a channel has
\* a packet ready.
C1_Witness ==
    /\ last.op = "QuerySendPacket"
    /\ last.found
    /\ last.header.packet_type = "Error"
    /\ m_global_send_buffer # <<>>
    /\ FirstReadyChannel # 0
    /\ m_state = "Normal"

\* C2 as claimed: in state Sleep QuerySendPacket reports false, whatever
\* the control queue holds.
C2_SleepBlocksEverything ==
    (last.op = "QuerySendPacket" /\ m_state = "Sleep") => ~last.found

\* C2, amended: in state Sleep QuerySendPacket reports true exactly for a
\* pending Error control packet; a channel's Data or MaxData packet is
\* reported false, and so is finding nothing.
C2_SleepBlocksChannelData ==
    (last.op = "QuerySendPacket" /\ m_state = "Sleep") =>
        (last.found <=> last.header.packet_type = "Error")

\* In state Sleep QuerySendPacket has found a channel's packet and reported
\* false.
C2_Witness ==
    /\ last.op = "QuerySendPacket"
    /\ m_state = "Sleep"
    /\ ~last.found
    /\ last.header.packet_type \in DataTypes

\* The transmit pump has been given the packet by QuerySendPacket, with
\* result true.
PumpGot(id) == pc[Pump].stage = "transmit" /\ pc[Pump].header.id = id

\* C3: work suppressed by Sleep is not lost.  No QuerySendPacket and no
\* UpdateMuxState made in state Sleep changes the control queue or a
\* channel's ready packets; and if the multiplexer ends up awake (from some
\* point on the state is Normal), the pump is eventually given every packet
\* that the control queue or a channel holds.
C3_SleepKeepsWork ==
    /\ [][ (m_state = "Sleep"
              /\ last'.op \in {"QuerySendPacket", "UpdateMuxState"})
            => UNCHANGED <<m_global_send_buffer, m_channel_impl_map>> ]_vars
    /\ \A id \in PktIds :
          <>[](m_state = "Normal") => [](id \in HeldIds => <>PumpGot(id))

\* The pump was given nothing for a channel's packet (copied out, reported
\* false), the packet is still held, and UpdateMuxState has just seen the
\* detector awake and signalled the event.
C3_Witness ==
    /\ pc[Pump].stage = "wait"
    /\ pc[Pump].header.packet_type \in DataTypes
    /\ pc[Pump].header.id \in HeldIds
    /\ last.op = "UpdateMuxState"
    /\ ~last.sleeping
    /\ m_state = "Normal"
    /\ m_event

C5_ErrorForUnknownIsSilent ==
    [][ ReceivedForUnknown({"Error"}) =>
          /\ last'.result = "ChannelNotExist"
          /\ UNCHANGED <<m_global_send_buffer, m_channel_impl_map, m_version,
                         m_state, m_event>> ]_vars

\* ProcessReceivePacket has returned ChannelNotExist for an Error packet of
\* an unknown channel, while the factory could have made a reply.
C5_Witness ==
    /\ last.op = "ProcessReceivePacket"
    /\ last.packet_type = "Error"
    /\ ~Exists(last.channel)
    /\ last.result = "ChannelNotExist"
    /\ CanAllocate

\* C6: after any sequence of Open and SetVersion calls (no call in progress),
\* every channel of the map has the multiplexer's version.
C6_ChannelsAtCurrentVersion ==
    Quiet => \A c \in DOMAIN m_channel_impl_map :
                m_channel_impl_map[c].version = m_version

\* Open has succeeded after a SetVersion to another version than the initial
\* one, and every channel is open.
C6_Witness ==
    /\ Quiet
    /\ last.op = "Open"
    /\ last.result = "Success"
    /\ m_version # ProtocolVersion
    /\ DOMAIN m_channel_impl_map = Channels

\* C7: Open inserts a channel only when its id is not in the map; an Open of
\* an id that is in the map returns ChannelAlreadyExist and changes neither
\* the map, the control queue, the state, the version nor the event; and an
\* Open returns Success only as the end of a call that inserted.
C7_OpenSucceedsOnce ==
    [][ /\ (last'.op = "Open" /\ m_mutex = NoThread /\ Exists(last'.channel))
            => /\ last'.result = "ChannelAlreadyExist"
               /\ UNCHANGED <<m_channel_impl_map, m_global_send_buffer,
                              m_state, m_version, m_event>>
        /\ \A t \in Threads :
              (pc'[t].op = "Open" /\ pc[t].op # "Open")
                  => /\ ~Exists(pc'[t].channel)
                     /\ DOMAIN m_channel_impl_map' =
                            DOMAIN m_channel_impl_map \cup {pc'[t].channel}
                     /\ \A c \in DOMAIN m_channel_impl_map :
                            m_channel_impl_map'[c] = m_channel_impl_map[c]
        /\ (last'.op = "Open" /\ last'.result = "Success")
              => \E t \in Threads : pc[t].op = "Open" /\ m_mutex = t ]_vars

\* An Open of a channel that is open has returned ChannelAlreadyExist while
\* another thread is inside SetVersion.
C7_Witness ==
    /\ last.op = "Open"
    /\ last.result = "ChannelAlreadyExist"
    /\ Exists(last.channel)
    /\ \E t \in Threads : pc[t].op = "SetVersion"

\* C8: every RemovePacket call notifies the task manager exactly once.
C8_RemoveNotifiesOnce ==
    last.op = "RemovePacket" => last.notified = 1

\* RemovePacket has returned for a Data or MaxData header whose channel is
\* not in the map.
C8_Witness ==
    /\ last.op = "RemovePacket"
    /\ last.packet_type \in DataTypes
    /\ ~Exists(last.channel)
    /\ last.notified = 1

\* The header validation matrix, with the multiplexer's current version.
HeaderAccepted(packet_type, version, body_size) ==
    \/ packet_type = "Data" /\ version = m_version /\ body_size <= MaxBody
    \/ packet_type = "MaxData" /\ version = m_version /\ body_size = 0
    \/ packet_type = "Error" /\ body_size = 0

\* C9: CheckReceivedHeader returns Success exactly for the headers the
\* matrix accepts, and ProtocolError for every other header, with the
\* version SetVersion set last.
C9_HeaderMatrix ==
    last.op = "CheckReceivedHeader" =>
        last.result =
            IF HeaderAccepted(last.packet_type, last.version, last.body_size)
            THEN "Success" ELSE "ProtocolError"

\* After a SetVersion, an Error header of another version and no body has
\* been accepted.
C9_Witness ==
    /\ last.op = "CheckReceivedHeader"
    /\ last.packet_type = "Error"
    /\ last.version # m_version
    /\ last.body_size = 0
    /\ last.result = "Success"
    /\ m_version # ProtocolVersion

\* C10 as claimed: while a thread is inside an operation and owns the lock,
\* no other thread is inside an operation on the map, the control queue,
\* the version or the state.
C10_AccessOnlyUnderLock ==
    \A t, u \in Threads :
        (t # u /\ m_mutex = u /\ pc[u].stage # "idle")
            => pc[t].stage \in {"idle", "transmit"}

\* C11 as claimed: a failure to make or queue the error packet is reported
\* as the result of the operation that attempted it (SendErrorPacket, and
\* ProcessReceivePacket for a Data or MaxData packet of an unknown channel),
\* with the control queue and the event left as they were.
C11_FailurePropagated ==
    [][ (~CanAllocate
           /\ (last'.op = "SendErrorPacket" \/ ReceivedForUnknown(DataTypes)))
        => /\ last'.result = "OutOfMemory"
           /\ UNCHANGED <<m_global_send_buffer, m_event>> ]_vars

\* C14 as claimed: with SetVersion and Open (and the other operations)
\* interleaved, once the calls have returned every channel of the map has
\* the multiplexer's version.
C14_NoStaleVersion ==
    (Quiet /\ last.op \in {"SetVersion", "Open"})
        => \A c \in DOMAIN m_channel_impl_map :
               m_channel_impl_map[c].version = m_version

\* C15: a QuerySendPacket that finds a pending control packet returns true
\* with the header of the queue's head and body size 0, in state Normal and
\* in state Sleep, changes nothing, and does not go on to the channels.
C15_ControlPacketUnconditional ==
    [][ m_global_send_buffer # <<>> =>
          /\ (last'.op = "QuerySendPacket" /\ m_mutex = NoThread) =>
                /\ last'.found
                /\ last'.header = Head(m_global_send_buffer)
                /\ last'.body_size = 0
                /\ UNCHANGED shared
          /\ \A t \in Threads :
                (pc'[t].op = "QuerySendPacket" /\ pc'[t].stage = "loop")
                    => pc[t] = pc'[t] ]_vars

\* In state Sleep, with a channel's packet ready, QuerySendPacket has
\* returned true with the pending error packet and body size 0.
C15_Witness ==
    /\ last.op = "QuerySendPacket"
    /\ m_state = "Sleep"
    /\ last.found
    /\ last.body_size = 0
    /\ m_global_send_buffer # <<>>
    /\ last.header = Head(m_global_send_buffer)
    /\ \E c \in DOMAIN m_channel_impl_map : m_channel_impl_map[c].send # <<>>

\* C16: a QuerySendPacket that found the control queue empty copies out the
\* packet of the first channel, in the map's order, that has one ready, and
\* returns true exactly in state Normal; with no channel ready it returns
\* false and copies nothing.
C16_FirstMatch ==
    [][ (last'.op = "QuerySendPacket" /\ m_mutex # NoThread) =>
          LET ready == {c \in DOMAIN m_channel_impl_map :
                           m_channel_impl_map[c].send # <<>>}
          IN  IF ready = {}
              THEN ~last'.found /\ last'.header = NoHeader
              ELSE \E c \in ready :
                      /\ \A d \in ready : c <= d
                      /\ last'.header = Head(m_channel_impl_map[c].send)
                      /\ last'.found <=> (m_state = "Normal") ]_vars

\* With packets ready on two channels, QuerySendPacket has returned the
\* first channel's packet.
C16_Witness ==
    /\ last.op = "QuerySendPacket"
    /\ last.found
    /\ m_global_send_buffer = <<>>
    /\ \A c \in Channels : /\ Exists(c)
                            /\ m_channel_impl_map[c].send # <<>>
    /\ last.header = Head(m_channel_impl_map[MinOf(Channels)].send)

\* C12: the event is set after every UpdateMuxState that takes the state
\* from Sleep to Normal and after every step that adds a control packet to
\* the queue; it is cleared only by a waiter (no call returns in that step
\* and nothing of the multiplexer changes); and a pump that waits for the
\* event is woken whenever the queue holds a control packet or
\* UpdateMuxState has just left Sleep.
C12_ReadinessSignal ==
    /\ [][ /\ (last'.op = "UpdateMuxState" /\ m_state = "Sleep"
                /\ m_state' = "Normal") => m_event'
           /\ Len(m_global_send_buffer') > Len(m_global_send_buffer)
                => m_event'
           /\ (m_event /\ ~m_event')
                => /\ last'.op = "None"
                   /\ UNCHANGED <<m_state, m_version, m_global_send_buffer,
                                  m_channel_impl_map, m_mutex, next_id>>
                   /\ \A t \in Threads :
                         pc'[t] = pc[t] \/ pc[t].stage = "wait" ]_vars
    /\ [](( /\ pc[Pump].stage = "wait"
             /\ \/ m_global_send_buffer # <<>>
                \/ last.op = "UpdateMuxState" /\ ~last.sleeping )
           => <>(pc[Pump].stage # "wait"))

\* The pump waits for the event, with the event clear, and a control packet
\* has just been queued by SendErrorPacket, which set the event.
C12_Witness ==
    /\ pc[Pump].stage = "wait"
    /\ last.op = "SendErrorPacket"
    /\ last.result = "Success"
    /\ Len(m_global_send_buffer) = 1
    /\ m_event
    /\ m_state = "Sleep"

\* The ids of a queue's packets, in the queue's order, are increasing.
Increasing(buffer) ==
    \A i, j \in 1..Len(buffer) : i < j => buffer[i].id < buffer[j].id

\* C17: the control queue is first in, first out, and the pump retires what
\* it was given.  The queue changes only by a new packet at its end or by
\* RemovePacket taking its head; an Error header that QuerySendPacket
\* returns is the head's; while the pump transmits the control packet it was
\* given, that packet stays the head, whatever other threads queue; and the
\* Error header the pump passes to RemovePacket is that of the packet
\* removed.  Packets are queued in the order they were made, so a retired
\* packet is older than every packet returned later.
C17_FifoRetirement ==
    /\ [][ /\ m_global_send_buffer' # m_global_send_buffer
                => \/ /\ Len(m_global_send_buffer')
                             = Len(m_global_send_buffer) + 1
                      /\ SubSeq(m_global_send_buffer', 1,
                                Len(m_global_send_buffer))
                             = m_global_send_buffer
                   \/ /\ m_global_send_buffer # <<>>
                      /\ m_global_send_buffer' = Tail(m_global_send_buffer)
                      /\ last'.op = "RemovePacket"
                      /\ pc[Pump].stage = "transmit"
                      /\ pc[Pump].header = Head(m_global_send_buffer)
           /\ (last'.op = "QuerySendPacket"
                  /\ last'.header.packet_type = "Error")
                => /\ m_global_send_buffer # <<>>
                   /\ last'.header = Head(m_global_send_buffer) ]_vars
    /\ []( /\ Increasing(m_global_send_buffer)
           /\ \A i \in 1..Len(m_global_send_buffer) :
                 m_global_send_buffer[i].id < next_id
           /\ (pc[Pump].stage = "transmit"
                  /\ pc[Pump].header.packet_type = "Error")
                => /\ m_global_send_buffer # <<>>
                   /\ pc[Pump].header = Head(m_global_send_buffer) )

\* The pump has retired the error packet it was given while a packet queued
\* after it is still in the queue.
C17_Witness ==
    /\ last.op = "RemovePacket"
    /\ last.packet_type = "Error"
    /\ pc[Pump].stage = "idle"
    /\ m_global_send_buffer # <<>>
    /\ next_id > MaxPkt

\* C20: QuerySendPacket selects without retiring.  No step of a
\* QuerySendPacket call changes the control queue, the map, the version or
\* the state; a call made right after a QuerySendPacket returned, with no
\* operation in between, returns the same result and the same header; and
\* the head of the control queue stays the head until RemovePacket with an
\* Error header takes it.
C20_SelectsWithoutRetiring ==
    /\ [][ /\ (\/ last'.op = "QuerySendPacket"
                \/ \E t \in Threads : pc'[t].op = "QuerySendPacket")
                => UNCHANGED <<m_global_send_buffer, m_channel_impl_map,
                               m_version, m_state>>
           /\ (/\ m_global_send_buffer # <<>>
               /\ \/ m_global_send_buffer' = <<>>
                  \/ Head(m_global_send_buffer') # Head(m_global_send_buffer))
                => /\ last'.op = "RemovePacket"
                   /\ last'.packet_type = "Error" ]_vars
    /\ [](last.op = "QuerySendPacket"
            => /\ QueryOutcome.found = last.found
               /\ QueryOutcome.header = last.header)

\* QuerySendPacket has returned the first of two pending error packets, and
\* both are still in the queue.
C20_Witness ==
    /\ last.op = "QuerySendPacket"
    /\ last.found
    /\ Len(m_global_send_buffer) = 2
    /\ last.header = Head(m_global_send_buffer)

\* The operations that take the lock.
LockedOps ==
    {"ProcessReceivePacket", "QuerySendPacket", "RemovePacket",
     "UpdateChannelState", "UpdateMuxState", "Open"}

\* C19: the lock is not leaked and does not deadlock.  It is owned only by
\* a thread that is inside Open or QuerySendPacket; every return of an
\* operation that takes the lock, error returns included, leaves it free;
\* ProcessReceivePacket queues its error packet in the step in which it has
\* the lock (SendErrorPacket takes none); so the lock is free again and
\* again, and under fair scheduling every thread that asks for it gets it.
C19_LockReleased ==
    /\ [](\A t \in Threads :
              m_mutex = t => /\ pc[t].op \in {"Open", "QuerySendPacket"}
                             /\ pc[t].stage \in {"loop", "read", "write"})
    /\ [][ last'.op \in LockedOps => m_mutex' = NoThread ]_vars
    /\ []<>(m_mutex = NoThread)
    /\ \A t \in Threads : []<><<Acquire(t) /\ Alone>>_vars

\* Open has returned ChannelAlreadyExist, after a ProcessReceivePacket that
\* queued an error packet, and the lock is free.
C19_Witness ==
    /\ last.op = "Open"
    /\ last.result = "ChannelAlreadyExist"
    /\ m_mutex = NoThread
    /\ m_global_send_buffer # <<>>
    /\ Quiet

\* The buffer setters.
Setters == {"SetSendBuffer", "SetSendBufferWithData", "SetReceiveBuffer"}

\* C13: a buffer setter returns only for a channel that is in the map, and
\* then changes that channel's buffers and nothing else: the other channels,
\* the channel's version and packets, the control queue, the version and
\* the state are as before.  For a channel that is not in the map it
\* aborts, with no buffer installed on any channel and nothing changed.
C13_SettersAbortOnMissing ==
    [][ /\ last'.op \in Setters
            => /\ Exists(last'.channel)
               /\ last'.result = "None"
               /\ DOMAIN m_channel_impl_map' = DOMAIN m_channel_impl_map
               /\ \A c \in DOMAIN m_channel_impl_map :
                     IF c = last'.channel
                     THEN /\ m_channel_impl_map'[c].version
                                = m_channel_impl_map[c].version
                          /\ m_channel_impl_map'[c].send
                                = m_channel_impl_map[c].send
                          /\ \/ m_channel_impl_map'[c].send_buffer # "None"
                             \/ m_channel_impl_map'[c].receive_buffer
                                   # "None"
                     ELSE m_channel_impl_map'[c] = m_channel_impl_map[c]
               /\ UNCHANGED <<m_global_send_buffer, m_version, m_state>>
        /\ \A t \in Threads :
              (pc'[t].stage = "aborted" /\ pc[t].stage # "aborted")
                => /\ pc'[t].op \in Setters
                   /\ ~Exists(pc'[t].channel)
                   /\ UNCHANGED <<m_channel_impl_map, m_global_send_buffer,
                                  m_version, m_state>>
        /\ Aborted => UNCHANGED vars ]_vars

\* SetReceiveBuffer has aborted for a channel that is not in the map, after
\* a send buffer was installed on the channel that is.
C13_Witness ==
    /\ \E t \in Threads :
          /\ pc[t].stage = "aborted"
          /\ pc[t].op = "SetReceiveBuffer"
          /\ ~Exists(pc[t].channel)
    /\ \E c \in DOMAIN m_channel_impl_map :
          /\ m_channel_impl_map[c].send_buffer = "BufferWithData"
          /\ m_channel_impl_map[c].receive_buffer = "None"

\* Nothing is queued or in flight on either side.
Drained ==
    /\ m_global_send_buffer = <<>>
    /\ peer.m_global_send_buffer = <<>>
    /\ wire.to_peer = <<>>
    /\ wire.from_peer = <<>>

=============================================================================
